---- MODULE Spec2Model ----
(***************************************************************************)
(* Model of FileImporter (src/FileImporterDataiku.py): the constructor,    *)
(* input validation, task dispatch, the per-file importer import_file,     *)
(* the singleton collapse and the concatenation reducer.                   *)
(*                                                                         *)
(* Python strings are sequences of one-character strings, so that          *)
(* startswith, `in`, == and + are computed and not assumed.  Python values *)
(* of mixed type are records [t |-> type tag, v |-> payload].              *)
(***************************************************************************)
EXTENDS Integers, Sequences, FiniteSets, TLC

VARIABLES
    pc,                        \* position in the constructor's control flow
    exc,                       \* exception that left the constructor, or "none"
    folder_listing,            \* folder.list_paths_in_partition()
    file_paths,                \* self.file_paths
    names,                     \* self.names
    subfolders,                \* self.subfolders
    sheets,                    \* self.sheets
    skiprows,                  \* self.skiprows
    exact_match,               \* self.exact_match
    binary_mode,               \* self.binary_mode
    concatenated,              \* self.concatenated
    file_checker,              \* self.file_checker
    latest_match,              \* self.latest_match
    ficheros_no_encontrados,   \* self.ficheros_no_encontrados
    result,                    \* self.result
    result_concatenated,       \* self.result_concatenated
    i,                         \* index of the current task (1-based)
    task,                      \* arguments of the current import_file call
    files,                     \* import_file: candidate list
    k,                         \* import_file: position of the loop over files
    counter,                   \* import_file: suffix counter (non-latest mode)
    latest_file,               \* import_file: latest_file
    latest_modification_date,  \* import_file: latest_modification_date
    imported,                  \* import_file: return value / last downloader flag
    stats,                     \* get_path_details calls of the current import_file call
    opens,                     \* get_download_stream calls of the current import_file call
    blob,                      \* downloader: what the folder holds for the path
    stream_open,               \* _read_file_from_sharepoint: streams open now
    binary_file,               \* downloader: binary_file
    file_type,                 \* _process_file: file_type
    returned,                  \* downloader: the value it returns
    calls,                     \* downloader: the calls made, in order
    attempts,                  \* _read_csv: the read_csv calls made, in order
    position,                  \* downloader: position of the BytesIO buffer
    message,                   \* downloader: str() of the exception raised
    sep,                       \* self.sep
    use_union,                 \* self.use_union
    all_columns,               \* _concatenate_files: all_columns
    found                     \* history: self.result as _concatenate_files found it

vars == <<pc, exc, folder_listing, file_paths, names, subfolders, sheets, skiprows,
          exact_match, binary_mode, concatenated, file_checker, latest_match,
          ficheros_no_encontrados, result, result_concatenated, i, task, files, k,
          counter, latest_file, latest_modification_date, imported, stats, opens,
          blob, stream_open, binary_file, file_type, returned, calls,
          attempts, position, message, sep, use_union, all_columns, found>>

\* the frame of one downloader call, followed step by step in SpecDownload
download == <<blob, stream_open, binary_file, file_type, returned, calls,
              attempts, position, message>>

\* what only _concatenate_files reads, followed step by step in SpecReduce
reducer == <<use_union, all_columns, found>>

\* the variables the steps of Spec leave alone
detail == <<download, reducer>>

request == <<folder_listing, sheets, skiprows, exact_match, binary_mode, concatenated,
             file_checker, latest_match, sep>>

locals == <<files, k, counter, latest_file, latest_modification_date, imported,
            stats, opens>>

-----------------------------------------------------------------------------
(* Bounds of the input enumeration.                                        *)
MaxNames == 2      \* longest names / subfolders / sheets / skiprows sequence
MaxListing == 2    \* longest folder listing

-----------------------------------------------------------------------------
(* Python values.                                                          *)
NoneV == [t |-> "None", v |-> <<>>]
Str(s) == [t |-> "str", v |-> s]
IntV(n) == [t |-> "int", v |-> n]
List(l) == [t |-> "list", v |-> l]
Dict(items) == [t |-> "dict", v |-> items]

IsNone(x) == x.t = "None"
IsStr(x) == x.t = "str"
IsInt(x) == x.t = "int"
IsList(x) == x.t = "list"

\* Python truthiness of None, str, list and int.
Truthy(x) ==
    CASE x.t = "None" -> FALSE
      [] x.t = "str" -> Len(x.v) > 0
      [] x.t = "list" -> Len(x.v) > 0
      [] x.t = "dict" -> Len(x.v) > 0
      [] x.t = "int" -> x.v # 0
      [] OTHER -> TRUE

\* str.startswith
StartsWith(s, p) == Len(p) <= Len(s) /\ SubSeq(s, 1, Len(p)) = p

\* the `in` operator on two strings
Contains(s, p) == \E o \in 0..(Len(s) - Len(p)) : SubSeq(s, o + 1, o + Len(p)) = p

SeqsUpTo(S, n) == UNION {[1..m -> S] : m \in 0..n}
SeqsFromTo(S, lo, hi) == UNION {[1..m -> S] : m \in lo..hi}

-----------------------------------------------------------------------------
(* Input pools.                                                            *)
PathA == <<"/", "a">>
PathB == <<"/", "b">>
PathBA == <<"/", "b", "/", "a">>
PathPool == {PathA, PathB, PathBA}
Patterns == {<<"/", "a">>, <<"b">>}
SubRaw == <<"b">>
SubSlash == <<"/", "b">>

\* lastModified values (ms since the epoch) the folder may report
Times == {1800000, 3600000, 5400000}

-----------------------------------------------------------------------------
(* Bytes: a buffer is a sequence of numbers 0..255.                        *)
MaxTail == 2       \* longest run of free bytes at the end of a buffer

\* the signatures of lines 529-533
OleSignature == <<208, 207, 17, 224, 161, 177, 26, 225>>
ZipSignature == <<80, 75, 3, 4>>
Utf8Bom == <<239, 187, 191>>
Comma == 44
SniffWindow == 1024

\* bytes that are part of no rule: "A" and ";"
PlainBytes == {65, 59}

\* binary_data[:n]
Slice(binary_data, n) ==
    SubSeq(binary_data, 1, IF Len(binary_data) < n THEN Len(binary_data) ELSE n)

\* the configured delimiter looked for instead of the comma
DetectFileTypeBySep(binary_data) ==
    IF StartsWith(binary_data, OleSignature) THEN "xls"
    ELSE IF StartsWith(binary_data, ZipSignature) THEN "xlsx"
    ELSE IF StartsWith(binary_data, Utf8Bom)
            \/ Contains(Slice(binary_data, SniffWindow), <<IF sep = ";" THEN 59 ELSE Comma>>)
    THEN "csv"
    ELSE "unknown"

\* the comma looked for in the whole buffer
DetectFileTypeNoWindow(binary_data) ==
    IF StartsWith(binary_data, OleSignature) THEN "xls"
    ELSE IF StartsWith(binary_data, ZipSignature) THEN "xlsx"
    ELSE IF StartsWith(binary_data, Utf8Bom) \/ Contains(binary_data, <<Comma>>)
    THEN "csv"
    ELSE "unknown"

\* the delimited-text rule tried before the ZIP rule
DetectFileTypeCsvFirst(binary_data) ==
    IF StartsWith(binary_data, OleSignature) THEN "xls"
    ELSE IF StartsWith(binary_data, Utf8Bom)
            \/ Contains(Slice(binary_data, SniffWindow), <<Comma>>)
    THEN "csv"
    ELSE IF StartsWith(binary_data, ZipSignature) THEN "xlsx"
    ELSE "unknown"

\* detect_file_type
DetectFileType(binary_data) ==
    IF StartsWith(binary_data, OleSignature) THEN "xls"
    ELSE IF StartsWith(binary_data, ZipSignature) THEN "xlsx"
    ELSE IF StartsWith(binary_data, Utf8Bom)
            \/ Contains(Slice(binary_data, SniffWindow), <<Comma>>)
    THEN "csv"
    ELSE "unknown"

\* what the folder holds for a path: bytes, or a stream that fails
StreamError == [ok |-> FALSE, bytes |-> <<>>]
Blob(b) == [ok |-> TRUE, bytes |-> b]

\* what a fetch of a path can meet in a whole request: a failing stream, or
\* one buffer of each kind detect_file_type tells apart
Contents ==
    {StreamError, Blob(OleSignature), Blob(ZipSignature),
     Blob(<<65, Comma, 65>>), Blob(<<65>>)}

\* the buffers of one download: a signature, whole or cut short, or none;
\* filler up to the edge of the window; free bytes
Heads ==
    {<<>>, OleSignature, ZipSignature, Utf8Bom,
     SubSeq(OleSignature, 1, 7), SubSeq(ZipSignature, 1, 3), SubSeq(Utf8Bom, 1, 2)}
Fillers == {[j \in 1..n |-> 65] : n \in {0, SniffWindow - 2, SniffWindow - 1, SniffWindow}}
Tails == SeqsUpTo(PlainBytes \cup {Comma}, MaxTail)
Buffers == {h \o f \o e : h \in Heads, f \in Fillers, e \in Tails}

-----------------------------------------------------------------------------
(* datetime: naive local time as <<hours since 0001-01-01 00:00, ms>>.     *)
MsPerHour == 3600000
EpochHours == 17259888
DatetimeMin == <<0, 0>>

\* The host's zone: clocks go back one hour at DstEndMs (utc offset one hour
\* larger before it), as in every zone with daylight saving time.
DstEndMs == 3600000
UtcOffsetMs(ms) == IF ms < DstEndMs THEN MsPerHour ELSE 0

\* datetime.datetime.fromtimestamp(ms / 1000): the local naive time
FromTimestamp(ms) ==
    LET local == ms + UtcOffsetMs(ms)
    IN <<EpochHours + (local \div MsPerHour), local % MsPerHour>>

\* a > b on naive datetimes
DtGreater(a, b) == a[1] > b[1] \/ (a[1] = b[1] /\ a[2] > b[2])

-----------------------------------------------------------------------------
(* Result keys and values.                                                 *)
Digits == <<"0", "1", "2", "3", "4", "5", "6", "7", "8", "9">>

RECURSIVE Decimal(_)
\* str(n) of a non-negative integer, as the f-string formats it
Decimal(n) ==
    IF n < 10 THEN <<Digits[n + 1]>>
    ELSE Decimal(n \div 10) \o <<Digits[(n % 10) + 1]>>

\* numbering from 1 instead of 0
SuffixedNameFromOne(file_name, n) == file_name \o <<"_">> \o Decimal(n + 1)

\* file_name + f"_{counter}"
SuffixedName(file_name, n) == file_name \o <<"_">> \o Decimal(n)

\* d[key] = val on an insertion-ordered dict kept as a sequence of items
DictSet(items, key, val) ==
    IF \E j \in 1..Len(items) : items[j].key = key
    THEN [j \in 1..Len(items) |->
            IF items[j].key = key THEN [key |-> key, val |-> val] ELSE items[j]]
    ELSE Append(items, [key |-> key, val |-> val])

\* every occurrence dropped
ListRemoveEvery(l, x) == SelectSeq(l, LAMBDA y : y # x)

\* list.remove(x): drops the first occurrence
RECURSIVE ListRemove(_, _)
ListRemove(l, x) ==
    IF l = <<>> THEN <<>>
    ELSE IF Head(l) = x THEN Tail(l)
    ELSE <<Head(l)>> \o ListRemove(Tail(l), x)

\* _process_file: the parsed value, or "raise" for an unsupported type
ProcessFile(file, binary_data, sheet) ==
    LET type == DetectFileType(binary_data)
    IN CASE type = "csv" -> [t |-> "frame", v |-> file]
         [] type \in {"xls", "xlsx"} ->
              IF IsList(sheet) \/ IsNone(sheet)
              THEN [t |-> "sheetmap", v |-> file]
              ELSE [t |-> "frame", v |-> file]
         [] OTHER -> [t |-> "raise", v |-> file]

\* binary_mode not looked at
BinaryShortcutOff(binary) == FALSE

\* line 391: if binary_mode
BinaryShortcut(binary) == binary

\* downloader: the value stored for `file`, or "raise" (every failure is
\* re-raised as Exception)
Downloader(file, content, sheet, binary) ==
    IF ~content.ok THEN [t |-> "raise", v |-> file]
    ELSE IF BinaryShortcut(binary) THEN [t |-> "bytes", v |-> file]
    ELSE ProcessFile(file, content.bytes, sheet)

-----------------------------------------------------------------------------
(* The requests.  Two families keep the enumeration small: InitShapes      *)
(* varies the shapes of names / subfolders / sheets / skiprows (aligned    *)
(* or not) over one listing and one setting of the flags; InitRuns varies  *)
(* the listing and all the flags over requests whose sequences are         *)
(* aligned.  In both, nothing has run yet.                                 *)
NotStarted ==
    /\ pc = "init"
    /\ exc = "none"
    /\ file_paths = <<>>
    /\ ficheros_no_encontrados = <<>>
    /\ result = NoneV
    /\ result_concatenated = NoneV
    /\ i = 0
    /\ task = NoneV
    /\ files = <<>>
    /\ k = 0
    /\ counter = 0
    /\ latest_file = NoneV
    /\ latest_modification_date = DatetimeMin
    /\ imported = FALSE
    /\ stats = <<>>
    /\ opens = <<>>
    /\ blob = StreamError
    /\ stream_open = 0
    /\ binary_file = <<>>
    /\ file_type = "unset"
    /\ returned = NoneV
    /\ calls = <<>>
    /\ attempts = <<>>
    /\ position = 0
    /\ message = <<>>
    /\ sep = ";"
    /\ use_union = FALSE
    /\ all_columns = <<>>
    /\ found = NoneV

SheetPair == List(<<IntV(0), IntV(1)>>)

InitShapes ==
    /\ NotStarted
    /\ folder_listing = <<PathA, PathBA>>
    /\ names \in {NoneV, Str(<<>>), Str(PathA)}
                 \cup {List(l) : l \in SeqsUpTo({Str(PathA)}, MaxNames)}
    /\ subfolders \in {NoneV, Str(SubSlash)}
                 \cup {List(l) : l \in SeqsUpTo({NoneV, Str(SubRaw)}, MaxNames)}
    /\ sheets \in {NoneV, IntV(0)}
                 \cup {List(l) : l \in SeqsUpTo({IntV(0), SheetPair}, MaxNames)}
    /\ skiprows \in {NoneV, IntV(1)}
                 \cup {List(l) : l \in SeqsUpTo({IntV(1)}, MaxNames)}
    /\ exact_match = FALSE
    /\ binary_mode = FALSE
    /\ concatenated = TRUE
    /\ file_checker = FALSE
    /\ latest_match = TRUE

InitRuns ==
    /\ NotStarted
    /\ folder_listing \in SeqsUpTo(PathPool, MaxListing)
    /\ names \in {Str(p) : p \in Patterns}
                 \cup {List(l) : l \in SeqsFromTo({Str(p) : p \in Patterns}, 1, MaxNames)}
    /\ subfolders \in {NoneV, Str(SubSlash), Str(SubRaw)}
                 \cup (IF IsList(names)
                       THEN {List(l) : l \in [1..Len(names.v) -> {NoneV, Str(SubSlash)}]}
                       ELSE {})
    /\ sheets = IntV(0)
    /\ skiprows = NoneV
    /\ exact_match \in BOOLEAN
    /\ binary_mode \in BOOLEAN
    /\ concatenated \in BOOLEAN
    /\ file_checker \in BOOLEAN
    /\ latest_match \in BOOLEAN

Init == InitShapes \/ InitRuns

-----------------------------------------------------------------------------
(* __init__ (lines 95-124), up to the call of _fill_atributes.             *)

\* "/" + subfolder if not subfolder.startswith("/") else subfolder
NormalizeSubfolder(subfolder) ==
    IF ~StartsWith(subfolder, <<"/">>) THEN <<"/">> \o subfolder ELSE subfolder

\* the list comprehension of lines 100-107 calls .startswith on every element
NormalizeRaises(l) == \E j \in 1..Len(l) : ~IsStr(l[j])

NormalizeList(l) == [j \in 1..Len(l) |-> Str(NormalizeSubfolder(l[j].v))]

Construct ==
    /\ pc = "init"
    /\ file_paths' = IF file_paths # <<>> THEN file_paths ELSE folder_listing
    /\ names' = IF Truthy(names) THEN names ELSE NoneV
    /\ IF IsList(subfolders) /\ NormalizeRaises(subfolders.v)
       THEN /\ pc' = "raised"
            /\ exc' = "AttributeError"
            /\ UNCHANGED <<subfolders, ficheros_no_encontrados>>
       ELSE /\ pc' = "validate"
            /\ exc' = exc
            /\ subfolders' = IF IsList(subfolders)
                             THEN List(NormalizeList(subfolders.v))
                             ELSE subfolders
            /\ ficheros_no_encontrados' = IF IsList(names) THEN names.v ELSE <<names>>
    /\ UNCHANGED <<detail, request, result, result_concatenated, i, task, locals>>

-----------------------------------------------------------------------------
(* _validate_inputs (lines 155-198).                                       *)
ValidationFails ==
    \/ ~Truthy(names)
    \/ /\ IsStr(names)
       /\ \/ ~(IsStr(subfolders) \/ IsNone(subfolders))
          \/ ~(IsInt(skiprows) \/ IsNone(skiprows))
          \/ /\ ~(IsStr(sheets) \/ IsInt(sheets) \/ IsNone(sheets))
             /\ ~(IsList(sheets) /\ Len(sheets.v) = 1)
    \/ /\ IsList(names)
       /\ \/ ~(IsList(subfolders) \/ IsStr(subfolders) \/ IsNone(subfolders))
          \/ (IsList(subfolders) /\ Len(subfolders.v) # Len(names.v))
          \/ (IsList(skiprows) /\ Len(skiprows.v) # Len(names.v))
          \/ /\ ~(IsStr(sheets) \/ IsInt(sheets) \/ IsNone(sheets))
             /\ ~(IsList(sheets) /\ Len(sheets.v) = Len(names.v))

ValidateInputs ==
    /\ pc = "validate"
    /\ IF ValidationFails
       THEN pc' = "raised" /\ exc' = "ValueError"
       ELSE pc' = "import" /\ exc' = exc
    /\ UNCHANGED <<detail, request, file_paths, names, subfolders, ficheros_no_encontrados,
                   result, result_concatenated, i, task, locals>>

-----------------------------------------------------------------------------
(* _import_files_without_concatenation (lines 222-315): the dispatch.      *)
TaskCount == IF IsStr(names) THEN 1 ELSE Len(names.v)

\* every task given the first element of each sequence
TaskArgsFirst(j) ==
    [file_name |-> IF IsStr(names) THEN names ELSE names.v[j],
     subfolder |-> IF IsList(subfolders) THEN subfolders.v[1] ELSE subfolders,
     sheet |-> IF IsList(sheets) THEN sheets.v[1] ELSE sheets,
     skiprows |-> IF IsList(skiprows) THEN skiprows.v[1] ELSE skiprows]

\* the arguments handed to import_file for the j-th name
TaskArgs(j) ==
    IF IsStr(names)
    THEN [file_name |-> names,
          subfolder |-> subfolders,
          sheet |-> IF IsList(sheets) THEN sheets.v[1] ELSE sheets,
          skiprows |-> skiprows]
    ELSE IF Len(names.v) = 1
    THEN [file_name |-> names.v[1],
          subfolder |-> IF IsList(subfolders) THEN subfolders.v[1] ELSE subfolders,
          sheet |-> IF IsList(sheets) THEN sheets.v[1] ELSE sheets,
          skiprows |-> IF IsList(skiprows) THEN skiprows.v[1] ELSE skiprows]
    ELSE [file_name |-> names.v[j],
          subfolder |-> IF IsStr(subfolders) THEN subfolders
                        ELSE IF IsList(subfolders) THEN subfolders.v[j] ELSE NoneV,
          sheet |-> IF IsList(sheets) /\ Len(sheets.v) = Len(names.v)
                    THEN sheets.v[j] ELSE sheets,
          skiprows |-> IF IsList(skiprows) THEN skiprows.v[j] ELSE skiprows]

\* line 222: self.result = {}
BeginImport ==
    /\ pc = "import"
    /\ result' = Dict(<<>>)
    /\ i' = 1
    /\ pc' = "dispatch"
    /\ UNCHANGED <<detail, exc, request, file_paths, names, subfolders, ficheros_no_encontrados,
                   result_concatenated, task, locals>>

\* the call of import_file for name i: a fresh frame
Dispatch ==
    /\ pc = "dispatch"
    /\ task' = TaskArgs(i)
    /\ files' = <<>>
    /\ k' = 0
    /\ counter' = 0
    /\ latest_file' = NoneV
    /\ latest_modification_date' = DatetimeMin
    /\ imported' = FALSE
    /\ stats' = <<>>
    /\ opens' = <<>>
    /\ pc' = "match"
    /\ UNCHANGED <<detail, exc, request, file_paths, names, subfolders, ficheros_no_encontrados,
                   result, result_concatenated, i>>

-----------------------------------------------------------------------------
(* import_file (lines 574-641).                                            *)

\* lines 574-580: the comprehension iterates `files`, which is not bound yet
MatchRaises(exact, subfolder) == exact /\ Truthy(subfolder)

\* the subfolder test left out of the filter
MatchesAnywhere(file, file_name, subfolder, exact) ==
    IF exact THEN file_name = file ELSE Contains(file, file_name)

\* the filter of lines 574-591 on one path
Matches(file, file_name, subfolder, exact) ==
    /\ IF exact THEN file_name = file ELSE Contains(file, file_name)
    /\ Truthy(subfolder) => StartsWith(file, subfolder.v)

MatchList(paths, file_name, subfolder, exact) ==
    SelectSeq(paths, LAMBDA file : Matches(file, file_name, subfolder, exact))

MatchFiles ==
    /\ pc = "match"
    /\ IF MatchRaises(exact_match, task.subfolder)
       THEN /\ pc' = "raised"
            /\ exc' = "UnboundLocalError"
            /\ files' = files
       ELSE /\ pc' = "check"
            /\ exc' = exc
            /\ files' = MatchList(file_paths, task.file_name.v, task.subfolder, exact_match)
    /\ UNCHANGED <<detail, request, file_paths, names, subfolders, ficheros_no_encontrados,
                   result, result_concatenated, i, task, k, counter, latest_file,
                   latest_modification_date, imported, stats, opens>>

\* the flag of either test read the wrong way round
RaiseOnEmptyInverted(fs, checker) == fs = <<>> /\ ~checker
SkipOnEmptyInverted(fs, checker) == fs = <<>> /\ checker

\* line 593: (not files) and (file_checker)
RaiseOnEmpty(fs, checker) == fs = <<>> /\ checker

\* line 596: (not files) and (not file_checker)
SkipOnEmpty(fs, checker) == fs = <<>> /\ ~checker

\* lines 593-594
EmptyRaise ==
    /\ pc = "check"
    /\ RaiseOnEmpty(files, file_checker)
    /\ pc' = "raised"
    /\ exc' = "FileNotFoundError"
    /\ UNCHANGED <<detail, request, file_paths, names, subfolders, ficheros_no_encontrados,
                   result, result_concatenated, i, task, locals>>

\* lines 596-597
EmptyReturn ==
    /\ pc = "check"
    /\ ~RaiseOnEmpty(files, file_checker)
    /\ SkipOnEmpty(files, file_checker)
    /\ imported' = FALSE
    /\ pc' = "return"
    /\ UNCHANGED <<detail, exc, request, file_paths, names, subfolders, ficheros_no_encontrados,
                   result, result_concatenated, i, task, files, k, counter, latest_file,
                   latest_modification_date, stats, opens>>

\* lines 599-601 and 626-627: entry of the selected loop.  A loop over no
\* file falls through: to line 612 in latest mode, to `return imported` with
\* imported unbound otherwise.
BeginSelection ==
    /\ pc = "check"
    /\ ~RaiseOnEmpty(files, file_checker)
    /\ ~SkipOnEmpty(files, file_checker)
    /\ k' = 1
    /\ counter' = 0
    /\ latest_file' = NoneV
    /\ latest_modification_date' = DatetimeMin
    /\ pc' = IF files = <<>>
             THEN (IF latest_match THEN "fetch_latest" ELSE "raised")
             ELSE (IF latest_match THEN "stat" ELSE "fetch")
    /\ exc' = IF files = <<>> /\ ~latest_match THEN "UnboundLocalError" ELSE exc
    /\ UNCHANGED <<detail, request, file_paths, names, subfolders, ficheros_no_encontrados,
                   result, result_concatenated, i, task, files, imported, stats, opens>>

\* `modification_date > latest_modification_date`
IsLater(modification_date, latest) == DtGreater(modification_date, latest)

\* lines 602-610: one iteration; the folder reports any lastModified
StatFile ==
    /\ pc = "stat"
    /\ \E ms \in Times :
         LET modification_date == FromTimestamp(ms)
         IN /\ stats' = Append(stats, [path |-> files[k], ms |-> ms])
            /\ IF IsLater(modification_date, latest_modification_date)
               THEN /\ latest_modification_date' = modification_date
                    /\ latest_file' = Str(files[k])
               ELSE UNCHANGED <<latest_modification_date, latest_file>>
    /\ k' = k + 1
    /\ pc' = IF k = Len(files) THEN "fetch_latest" ELSE "stat"
    /\ UNCHANGED <<detail, exc, request, file_paths, names, subfolders, ficheros_no_encontrados,
                   result, result_concatenated, i, task, files, counter, imported, opens>>

\* a failed download taken for a value
RaisesNever(val) == FALSE

\* downloader raised: nothing in import_file or in its callers catches it
Raises(val) == val.t = "raise"

\* lines 612-624
\* the subscript written whatever the downloader did
AssignedAnyway(items, name, val) == DictSet(items, name, val)

\* lines 613 and 630: result[name], imported = downloader(...) assigns only
\* once the downloader has returned
Assigned(items, name, val) == IF Raises(val) THEN items ELSE DictSet(items, name, val)

FetchLatest ==
    /\ pc = "fetch_latest"
    /\ IF Truthy(latest_file)
       THEN \E content \in Contents :
              LET val == Downloader(latest_file.v, content, task.sheet, binary_mode)
              IN /\ opens' = Append(opens, latest_file.v)
                 /\ result' = Dict(Assigned(result.v, task.file_name.v, val))
                 /\ IF Raises(val)
                    THEN /\ pc' = "raised"
                         /\ exc' = "Exception"
                         /\ UNCHANGED imported
                    ELSE /\ pc' = "return"
                         /\ exc' = exc
                         /\ imported' = TRUE
       ELSE /\ pc' = "return"
            /\ imported' = FALSE
            /\ UNCHANGED <<exc, result, opens>>
    /\ UNCHANGED <<detail, request, file_paths, names, subfolders, ficheros_no_encontrados,
                   result_concatenated, i, task, files, k, counter, latest_file,
                   latest_modification_date, stats>>

\* lines 628-641: one iteration, and the return after the last one
FetchNext ==
    /\ pc = "fetch"
    /\ \E content \in Contents :
         LET name == SuffixedName(task.file_name.v, counter)
             val == Downloader(files[k], content, task.sheet, binary_mode)
         IN /\ opens' = Append(opens, files[k])
            /\ result' = Dict(Assigned(result.v, name, val))
            /\ IF Raises(val)
               THEN /\ pc' = "raised"
                    /\ exc' = "Exception"
                    /\ UNCHANGED <<imported, counter, k>>
               ELSE /\ pc' = IF k = Len(files) THEN "return" ELSE "fetch"
                    /\ exc' = exc
                    /\ imported' = TRUE
                    /\ counter' = counter + 1
                    /\ k' = k + 1
    /\ UNCHANGED <<detail, request, file_paths, names, subfolders, ficheros_no_encontrados,
                   result_concatenated, i, task, files, latest_file,
                   latest_modification_date, stats>>

-----------------------------------------------------------------------------
(* Back in _import_files_without_concatenation.                            *)

\* lines 258-259, 279-280, 314-315 and the step of the for loop
TaskReturn ==
    /\ pc = "return"
    /\ ficheros_no_encontrados' =
         IF imported THEN ListRemove(ficheros_no_encontrados, task.file_name)
         ELSE ficheros_no_encontrados
    /\ IF i < TaskCount
       THEN i' = i + 1 /\ pc' = "dispatch"
       ELSE i' = i /\ pc' = "collapse"
    /\ UNCHANGED <<detail, exc, request, file_paths, names, subfolders, result,
                   result_concatenated, task, locals>>

\* collapsing any non-empty mapping to its first value
CollapseResultFirst(res) == IF Len(res.v) >= 1 THEN res.v[1].val ELSE res

\* lines 317-318
CollapseResult(res) == IF Len(res.v) = 1 THEN res.v[1].val ELSE res

Collapse ==
    /\ pc = "collapse"
    /\ result' = CollapseResult(result)
    /\ pc' = IF concatenated THEN "concat" ELSE "done"
    /\ UNCHANGED <<detail, exc, request, file_paths, names, subfolders, ficheros_no_encontrados,
                   result_concatenated, i, task, locals>>

-----------------------------------------------------------------------------
(* _concatenate_files (lines 329-358), on the kinds of the values: the     *)
(* frames' columns and rows are not part of this state.                    *)

\* isinstance(self.result, dict): the mapping, or a workbook's sheet mapping
IsPyDict(res) == res.t \in {"dict", "sheetmap"}

\* a guard that lets every dict through
ReducerRunsOnAnyDict(res) == IsPyDict(res)

\* the guard of lines 329-334 lets the reducer run; a sheet map left as the
\* bare result is a non-empty dict of frames
ReducerRuns(res) ==
    /\ IsPyDict(res)
    /\ res.t = "dict" => (Len(res.v) > 0 /\ \A j \in 1..Len(res.v) : res.v[j].val.t = "frame")

ConcatFrame == [t |-> "frame", v |-> <<"c", "o", "n", "c", "a", "t">>]

Concatenate ==
    /\ pc = "concat"
    /\ IF ReducerRuns(result)
       THEN \E some_rows \in BOOLEAN :
              \* pd.concat raises ValueError when handed no frame at all
              IF some_rows
              THEN pc' = "done" /\ exc' = exc /\ result_concatenated' = ConcatFrame
              ELSE pc' = "raised" /\ exc' = "ValueError"
                   /\ result_concatenated' = result_concatenated
       ELSE pc' = "done" /\ exc' = exc /\ result_concatenated' = result_concatenated
    /\ UNCHANGED <<detail, request, file_paths, names, subfolders, ficheros_no_encontrados,
                   result, i, task, locals>>

-----------------------------------------------------------------------------
Next ==
    \/ Construct
    \/ ValidateInputs
    \/ BeginImport
    \/ Dispatch
    \/ MatchFiles
    \/ EmptyRaise
    \/ EmptyReturn
    \/ BeginSelection
    \/ StatFile
    \/ FetchLatest
    \/ FetchNext
    \/ TaskReturn
    \/ Collapse
    \/ Concatenate

Spec == Init /\ [][Next]_vars

-----------------------------------------------------------------------------
(* One call of downloader from import_file (lines 612-624), step by step:  *)
(* _read_file_from_sharepoint, the binary_mode branch, _process_file and   *)
(* the assignment of the returned pair.                                    *)

\* io.BytesIO(binary_file) read from `file`
BytesIO(file, data) == [t |-> "bytes", v |-> file, data |-> data]

PriorEntry == [key |-> PathB, val |-> [t |-> "frame", v |-> PathB]]

InitDownload ==
    /\ pc = "dl_open"
    /\ exc = "none"
    /\ folder_listing = <<PathA>>
    /\ file_paths = <<PathA>>
    /\ names = Str(PathA)
    /\ subfolders = NoneV
    /\ sheets \in {IntV(0), SheetPair}
    /\ skiprows = NoneV
    /\ exact_match = FALSE
    /\ binary_mode \in BOOLEAN
    /\ concatenated = FALSE
    /\ file_checker = FALSE
    /\ latest_match = TRUE
    /\ ficheros_no_encontrados = <<Str(PathA)>>
    /\ result \in {Dict(<<>>), Dict(<<PriorEntry>>)}
    /\ result_concatenated = NoneV
    /\ i = 1
    /\ task = [file_name |-> Str(PathA), subfolder |-> NoneV,
               sheet |-> sheets, skiprows |-> NoneV]
    /\ files = <<PathA>>
    /\ k = 2
    /\ counter = 0
    /\ latest_file = Str(PathA)
    /\ latest_modification_date = FromTimestamp(DstEndMs)
    /\ imported = FALSE
    /\ stats = <<[path |-> PathA, ms |-> DstEndMs]>>
    /\ opens = <<>>
    /\ blob \in {StreamError} \cup {Blob(b) : b \in Buffers}
    /\ stream_open = 0
    /\ binary_file = <<>>
    /\ file_type = "unset"
    /\ returned = NoneV
    /\ calls = <<>>
    /\ attempts = <<>>
    /\ position = 0
    /\ message = <<>>
    /\ sep \in {";", ","}
    /\ use_union = FALSE
    /\ all_columns = <<>>
    /\ found = NoneV

import_state == <<folder_listing, file_paths, names, subfolders, sheets, skiprows,
                  exact_match, binary_mode, concatenated, file_checker, latest_match,
                  ficheros_no_encontrados, result_concatenated, i, task, files, k,
                  counter, latest_file, latest_modification_date, stats, sep, reducer>>

\* the text of an exception: literal parts and formatted paths
Text(s) == [lit |-> s, path |-> <<>>]
PathText(path) == [lit |-> "", path |-> path]

\* line 404: f"Could not import the document from Sharepoint: {e}"
Umbrella(e) == <<Text("Could not import the document from Sharepoint: ")>> \o e

\* line 428: f"Error reading file from Sharepoint: {e}"
FetchError(e) == <<Text("Error reading file from Sharepoint: ")>> \o e

\* what the folder's failing stream says: its text is the platform's, and may
\* or may not name the path
StreamCauses(path) ==
    {<<Text("stream failure")>>, <<Text("stream failure: "), PathText(path)>>}

\* line 481
UnsupportedMsg == <<Text("Unsupported file type.")>>

\* line 516
DecodeMsg == <<Text("Unable to decode the CSV file with common encodings.")>>

\* what a parser says of a buffer it cannot parse: a buffer has no name
ParserMsg == <<Text("parser failure")>>

\* line 425: folder.get_download_stream(file_name); a failing stream fails
\* here or at the read
DlOpen ==
    /\ pc = "dl_open"
    /\ calls' = Append(calls, "get_download_stream")
    /\ opens' = Append(opens, latest_file.v)
    /\ \E opened \in (IF blob.ok THEN {TRUE} ELSE BOOLEAN) :
         IF opened
         THEN /\ pc' = "dl_read" /\ exc' = exc /\ stream_open' = stream_open + 1
              /\ message' = message
         ELSE /\ pc' = "dl_raised" /\ exc' = "Exception" /\ stream_open' = stream_open
              /\ \E cause \in StreamCauses(latest_file.v) :
                     message' = Umbrella(FetchError(cause))
    /\ UNCHANGED <<import_state, result, imported, blob, binary_file, file_type, returned,
                   attempts, position>>

\* the stream kept open
ReleaseNever(open) == open

\* line 425: leaving the with block closes the stream
Release(open) == open - 1

\* line 426: return stream.read(), leaving the with block either way
DlRead ==
    /\ pc = "dl_read"
    /\ calls' = Append(calls, "read")
    /\ stream_open' = Release(stream_open)
    /\ IF blob.ok
       THEN /\ pc' = "dl_branch" /\ exc' = exc /\ binary_file' = blob.bytes
            /\ message' = message
       ELSE /\ pc' = "dl_raised" /\ exc' = "Exception" /\ binary_file' = binary_file
            /\ \E cause \in StreamCauses(latest_file.v) :
                   message' = Umbrella(FetchError(cause))
    /\ UNCHANGED <<import_state, result, imported, opens, blob, file_type, returned,
                   attempts, position>>

\* lines 389-392
DlBranch ==
    /\ pc = "dl_branch"
    /\ IF BinaryShortcut(binary_mode)
       THEN pc' = "dl_store" /\ returned' = BytesIO(latest_file.v, binary_file)
       ELSE pc' = "dl_detect" /\ returned' = returned
    /\ UNCHANGED <<import_state, exc, result, imported, opens, blob, stream_open,
                   binary_file, file_type, calls, attempts, position, message>>

\* line 455
DlDetect ==
    /\ pc = "dl_detect"
    /\ file_type' = DetectFileType(binary_file)
    /\ calls' = Append(calls, "detect_file_type")
    /\ pc' = "dl_parse"
    /\ UNCHANGED <<import_state, exc, result, imported, opens, blob, stream_open,
                   binary_file, returned, attempts, position, message>>

\* the adapter each file type is handed to
ParserFor(type) ==
    CASE type = "csv" -> <<"_read_csv">>
      [] type = "xls" -> <<"read_excel:xlrd">>
      [] type = "xlsx" -> <<"read_excel:openpyxl">>
      [] OTHER -> <<>>

\* lines 457-481: the buffer goes to _read_csv, or a workbook adapter parses
\* it or fails on it, or its type is unsupported
DlParse ==
    /\ pc = "dl_parse"
    /\ calls' = calls \o ParserFor(file_type)
    /\ IF file_type = "csv"
       THEN pc' = "csv_read" /\ UNCHANGED <<exc, returned, message>>
       ELSE \E parsed \in BOOLEAN :
              LET val == ProcessFile(latest_file.v, binary_file, task.sheet)
              IN IF val.t = "raise"
                 THEN /\ pc' = "dl_raised" /\ exc' = "Exception" /\ returned' = returned
                      /\ message' = Umbrella(UnsupportedMsg)
                 ELSE IF ~parsed
                 THEN /\ pc' = "dl_raised" /\ exc' = "Exception" /\ returned' = returned
                      /\ message' = Umbrella(ParserMsg)
                 ELSE /\ pc' = "dl_store" /\ exc' = exc /\ returned' = val
                      /\ message' = message
    /\ UNCHANGED <<import_state, result, imported, opens, blob, stream_open,
                   binary_file, file_type, attempts, position>>

\* latin1 read before utf-8
EncodingsLatinFirst == <<"latin1", "utf-8", "iso-8859-1", "cp1252">>

\* line 504
Encodings == <<"utf-8", "latin1", "iso-8859-1", "cp1252">>

IsContinuation(b) == b >= 128 /\ b <= 191

\* the bytes a UTF-8 sequence that starts with b takes, 0 for no lead byte
Utf8Length(b) ==
    IF b <= 127 THEN 1
    ELSE IF b >= 194 /\ b <= 223 THEN 2
    ELSE IF b >= 224 /\ b <= 239 THEN 3
    ELSE IF b >= 240 /\ b <= 244 THEN 4
    ELSE 0

\* the second byte a lead byte admits (no overlong form, no surrogate,
\* nothing past U+10FFFF)
SecondByteFits(b, c) ==
    CASE b = 224 -> c >= 160 /\ c <= 191
      [] b = 237 -> c >= 128 /\ c <= 159
      [] b = 240 -> c >= 144 /\ c <= 191
      [] b = 244 -> c >= 128 /\ c <= 143
      [] OTHER -> IsContinuation(c)

\* bytes.decode("utf-8") does not raise: every lead byte is followed by its
\* continuation bytes and every continuation byte belongs to a lead byte
Utf8Decodes(data) ==
    \A p \in 1..Len(data) :
        IF IsContinuation(data[p])
        THEN \E q \in 1..3 :
               /\ p - q >= 1
               /\ Utf8Length(data[p - q]) > q
               /\ \A r \in 1..(q - 1) : IsContinuation(data[p - r])
        ELSE /\ Utf8Length(data[p]) >= 1
             /\ p + Utf8Length(data[p]) - 1 <= Len(data)
             /\ \A r \in 1..(Utf8Length(data[p]) - 1) :
                    IF r = 1 THEN SecondByteFits(data[p], data[p + 1])
                    ELSE IsContinuation(data[p + r])

\* the bytes cp1252 maps to no character
Cp1252Undefined == {129, 141, 143, 144, 157}

\* pd.read_csv(..., encoding=encoding) decodes the bytes it reads
Decodes(encoding, data) ==
    CASE encoding = "utf-8" -> Utf8Decodes(data)
      [] encoding = "cp1252" -> \A p \in 1..Len(data) : data[p] \notin Cp1252Undefined
      [] OTHER -> TRUE

\* lines 505-513: one pd.read_csv call, reading the buffer from its position
\* to the end; the parser may fail on what it decoded
CsvRead ==
    /\ pc = "csv_read"
    /\ LET encoding == Encodings[Len(attempts) + 1]
       IN /\ attempts' = Append(attempts, [encoding |-> encoding, position |-> position,
                                           sep |-> sep])
          /\ calls' = Append(calls, "read_csv")
          /\ position' = Len(binary_file)
          /\ IF Decodes(encoding, SubSeq(binary_file, position + 1, Len(binary_file)))
             THEN \E parsed \in BOOLEAN :
                    IF parsed
                    THEN /\ pc' = "dl_store" /\ exc' = exc /\ message' = message
                         /\ returned' = ProcessFile(latest_file.v, binary_file, task.sheet)
                    ELSE /\ pc' = "dl_raised" /\ exc' = "Exception"
                         /\ message' = Umbrella(ParserMsg)
                         /\ returned' = returned
             ELSE pc' = "csv_rewind" /\ UNCHANGED <<exc, message, returned>>
    /\ UNCHANGED <<import_state, result, imported, opens, blob, stream_open,
                   binary_file, file_type>>

\* lines 514-516: the handler of UnicodeDecodeError rewinds the buffer; the
\* loop goes on, or ends in the ValueError of line 516
CsvRewind ==
    /\ pc = "csv_rewind"
    /\ position' = 0
    /\ calls' = Append(calls, "seek")
    /\ IF Len(attempts) < Len(Encodings)
       THEN pc' = "csv_read" /\ UNCHANGED <<exc, message>>
       ELSE pc' = "dl_raised" /\ exc' = "Exception" /\ message' = Umbrella(DecodeMsg)
    /\ UNCHANGED <<import_state, result, imported, opens, blob, stream_open,
                   binary_file, file_type, returned, attempts>>

\* line 613: result[file_name], imported = (value, True)
DlStore ==
    /\ pc = "dl_store"
    /\ result' = Dict(DictSet(result.v, task.file_name.v, returned))
    /\ imported' = TRUE
    /\ pc' = "dl_done"
    /\ UNCHANGED <<import_state, exc, opens, download>>

NextDownload ==
    \/ DlOpen
    \/ DlRead
    \/ DlBranch
    \/ DlDetect
    \/ DlParse
    \/ CsvRead
    \/ CsvRewind
    \/ DlStore

SpecDownload == InitDownload /\ [][NextDownload]_vars

-----------------------------------------------------------------------------
(* pandas frames, for _concatenate_files: the column labels in order, the  *)
(* row index, and the rows; a row is its cells by column label, with `id`  *)
(* telling which row of which parsed file it is.                          *)
MaxFrames == 2     \* most values in the result mapping
MaxRows == 2       \* most rows of a parsed frame

Frame(columns, index, rows) ==
    [t |-> "frame", columns |-> columns, index |-> index, rows |-> rows]

NaN == <<"NaN">>
Origin == <<"O", "r", "i", "g", "i", "n">>

\* ord() of the characters of the column labels
Ord(c) ==
    CASE c = "O" -> 79
      [] c = "a" -> 97
      [] c = "b" -> 98
      [] c = "c" -> 99
      [] c = "g" -> 103
      [] c = "i" -> 105
      [] c = "n" -> 110
      [] c = "r" -> 114

\* s < t on str: the first differing character decides, a proper prefix is less
StrLess(s, u) ==
    \E j \in 1..(Len(s) + 1) :
        /\ \A q \in 1..(j - 1) : q <= Len(u) /\ s[q] = u[q]
        /\ \/ j = Len(s) + 1 /\ Len(u) >= j
           \/ j <= Len(s) /\ j <= Len(u) /\ Ord(s[j]) < Ord(u[j])

\* sorted(S) of a set of str
Sorted(S) ==
    [m \in 1..Cardinality(S) |->
        CHOOSE x \in S : Cardinality({y \in S : StrLess(y, x)}) = m - 1]

\* set(df.columns.tolist())
ColumnSet(df) == {df.columns[j] : j \in 1..Len(df.columns)}

\* set.union(*column_sets), set.intersection(*column_sets)
UnionOf(frames) == UNION {ColumnSet(frames[j]) : j \in 1..Len(frames)}
IntersectionOf(frames) ==
    {c \in UnionOf(frames) : \A j \in 1..Len(frames) : c \in ColumnSet(frames[j])}

\* df[col] = val: a new last column, or an existing one overwritten
SetItem(df, col, val) ==
    [df EXCEPT
       !.columns = IF col \in ColumnSet(df) THEN df.columns ELSE Append(df.columns, col),
       !.rows = [r \in 1..Len(df.rows) |->
                   [df.rows[r] EXCEPT
                      !.cells = [c \in ColumnSet(df) \cup {col} |->
                                   IF c = col THEN val ELSE df.rows[r].cells[c]]]]]

\* the frame left with the columns it has
ReindexKeepAll(df, cols) == df

\* df.reindex(columns=cols): a new frame, NaN in the columns df lacks
Reindex(df, cols) ==
    [df EXCEPT
       !.columns = cols,
       !.rows = [r \in 1..Len(df.rows) |->
                   [df.rows[r] EXCEPT
                      !.cells = [c \in {cols[j] : j \in 1..Len(cols)} |->
                                   IF c \in ColumnSet(df) THEN df.rows[r].cells[c]
                                   ELSE NaN]]]]

\* df.empty: no rows or no columns
IsEmpty(df) == Len(df.rows) = 0 \/ Len(df.columns) = 0

RECURSIVE AppendNew(_, _)
\* the labels of cols that seen lacks, appended to seen in their order
AppendNew(seen, cols) ==
    IF cols = <<>> THEN seen
    ELSE AppendNew(IF \E j \in 1..Len(seen) : seen[j] = Head(cols)
                   THEN seen ELSE Append(seen, Head(cols)),
                   Tail(cols))

RECURSIVE OuterColumns(_)
\* the column labels of pd.concat (join="outer", sort=False): those of the
\* frames when all agree, else every label in order of first appearance
OuterColumns(frames) ==
    IF Len(frames) = 1 THEN frames[1].columns
    ELSE IF \A j \in 2..Len(frames) : frames[j].columns = frames[1].columns
    THEN frames[1].columns
    ELSE AppendNew(OuterColumns(SubSeq(frames, 1, Len(frames) - 1)),
                   frames[Len(frames)].columns)

RECURSIVE StackRows(_)
StackRows(frames) ==
    IF frames = <<>> THEN <<>> ELSE Head(frames).rows \o StackRows(Tail(frames))

RECURSIVE StackIndex(_)
StackIndex(frames) ==
    IF frames = <<>> THEN <<>> ELSE Head(frames).index \o StackIndex(Tail(frames))

\* the index of every frame kept
ConcatKeepIndex(frames) ==
    LET cols == OuterColumns(frames)
        stacked == StackRows(frames)
    IN Frame(cols, StackIndex(frames),
             [r \in 1..Len(stacked) |->
                [stacked[r] EXCEPT
                   !.cells = [c \in {cols[j] : j \in 1..Len(cols)} |->
                                IF c \in DOMAIN stacked[r].cells
                                THEN stacked[r].cells[c] ELSE NaN]]])

\* pd.concat(frames, ignore_index=True) of one frame or more
Concat(frames) ==
    LET cols == OuterColumns(frames)
        stacked == StackRows(frames)
    IN Frame(cols, [r \in 1..Len(stacked) |-> r - 1],
             [r \in 1..Len(stacked) |->
                [stacked[r] EXCEPT
                   !.cells = [c \in {cols[j] : j \in 1..Len(cols)} |->
                                IF c \in DOMAIN stacked[r].cells
                                THEN stacked[r].cells[c] ELSE NaN]]])

-----------------------------------------------------------------------------
(* _concatenate_files (lines 329-358), step by step on such frames.        *)

\* the column labels a parsed file may have, in the order of the file
ColumnLists ==
    {<<>>, <<<<"a">>>>, <<<<"b">>, <<"a">>>>, <<<<"a">>, <<"c">>>>,
     <<Origin, <<"a">>>>, <<<<"c">>>>}

\* the frame parsed from the file stored under key: n rows, default index
ParsedFrame(key, cols, n) ==
    Frame(cols, [r \in 1..n |-> r - 1],
          [r \in 1..n |->
             [id |-> <<key, r>>,
              cells |-> [c \in {cols[j] : j \in 1..Len(cols)} |-> <<key, r, c>>]]])

ParsedFrames(key) ==
    {ParsedFrame(key, cols, n) : cols \in ColumnLists \ {<<>>}, n \in 0..MaxRows}
        \cup {ParsedFrame(key, <<>>, 0)}

\* the keys, in the order of their insertion
Keys == <<<<"y">>, <<"x">>, <<"z">>>>

\* the sheet identifiers of a workbook, in the order read_excel returns them
SheetIds == <<<<"s">>, <<"t">>, <<"u">>>>

\* what read_excel returns for a sequence of sheets: sheet identifier to frame
SheetMap(items) == [t |-> "sheetmap", v |-> items]

\* the sheet maps of m sheets
SheetMaps(m) ==
    {SheetMap([j \in 1..m |-> [key |-> SheetIds[j], val |-> vals[j]]]) :
        vals \in {f \in [1..m -> UNION {ParsedFrames(SheetIds[j]) : j \in 1..m}] :
                    \A j \in 1..m : f[j] \in ParsedFrames(SheetIds[j])}}

\* what import_file may have stored under key
StoredValues(key) ==
    ParsedFrames(key) \cup {BytesIO(key, <<Comma>>)}
        \cup {SheetMap(<<[key |-> SheetIds[1],
                          val |-> ParsedFrame(SheetIds[1], <<<<"a">>>>, 1)]>>)}

\* the mappings of m entries
Mappings(m) ==
    {Dict([j \in 1..m |-> [key |-> Keys[j], val |-> vals[j]]]) :
        vals \in {f \in [1..m -> UNION {StoredValues(Keys[j]) : j \in 1..m}] :
                    \A j \in 1..m : f[j] \in StoredValues(Keys[j])}}

\* self.result after lines 317-318: a mapping of no or several entries, or
\* the bare value of a single one, the sheet map of a workbook included
InitReduce ==
    /\ pc = "rd_call"
    /\ exc = "none"
    /\ folder_listing = <<>>
    /\ file_paths = <<>>
    /\ names = List(<<Str(Keys[1])>>)
    /\ subfolders = NoneV
    /\ sheets = IntV(0)
    /\ skiprows = NoneV
    /\ exact_match = FALSE
    /\ binary_mode = FALSE
    /\ concatenated \in BOOLEAN
    /\ file_checker = FALSE
    /\ latest_match = TRUE
    /\ ficheros_no_encontrados = <<>>
    /\ result \in Mappings(0) \cup StoredValues(Keys[1])
                  \cup UNION {Mappings(m) : m \in 2..MaxFrames}
                  \cup UNION {SheetMaps(m) : m \in 1..MaxFrames}
    /\ result_concatenated = NoneV
    /\ i = 1
    /\ task = NoneV
    /\ files = <<>>
    /\ k = 0
    /\ counter = 0
    /\ latest_file = NoneV
    /\ latest_modification_date = DatetimeMin
    /\ imported = FALSE
    /\ stats = <<>>
    /\ opens = <<>>
    /\ blob = StreamError
    /\ stream_open = 0
    /\ binary_file = <<>>
    /\ file_type = "unset"
    /\ returned = NoneV
    /\ calls = <<>>
    /\ attempts = <<>>
    /\ position = 0
    /\ message = <<>>
    /\ sep = ";"
    /\ use_union \in BOOLEAN
    /\ all_columns = <<>>
    /\ found = result

construction == <<folder_listing, file_paths, names, subfolders, sheets, skiprows,
                  exact_match, binary_mode, concatenated, file_checker, latest_match,
                  ficheros_no_encontrados, i, task, files, counter, latest_file,
                  latest_modification_date, imported, stats, opens, download,
                  sep, use_union, found>>

\* list(self.result.values())
Values(res) == [j \in 1..Len(res.v) |-> res.v[j].val]

\* lines 214-215: if self.concatenated: self._concatenate_files()
RdCall ==
    /\ pc = "rd_call"
    /\ pc' = IF concatenated THEN "rd_guard" ELSE "rd_skipped"
    /\ UNCHANGED <<construction, exc, result, result_concatenated, k, all_columns>>

\* lines 329-334
RdGuard ==
    /\ pc = "rd_guard"
    /\ pc' = IF ReducerRuns(result) THEN "rd_columns" ELSE "rd_done"
    /\ UNCHANGED <<construction, exc, result, result_concatenated, k, all_columns>>

\* lines 337-346
TargetColumns(frames, union) ==
    IF union THEN Sorted(UnionOf(frames)) ELSE Sorted(IntersectionOf(frames))

RdColumns ==
    /\ pc = "rd_columns"
    /\ all_columns' = TargetColumns(Values(result), use_union)
    /\ k' = 1
    /\ pc' = IF use_union THEN "rd_concat" ELSE "rd_tag"
    /\ UNCHANGED <<construction, exc, result, result_concatenated>>

\* the key of the first entry written to every frame
TagFirstKey(res, j) ==
    Reindex(SetItem(res.v[j].val, Origin, res.v[1].key), all_columns \o <<Origin>>)

\* lines 349-352, for the j-th entry
Tag(res, j) ==
    Reindex(SetItem(res.v[j].val, Origin, res.v[j].key), all_columns \o <<Origin>>)

RdTag ==
    /\ pc = "rd_tag"
    /\ result' = [result EXCEPT !.v[k] = [key |-> result.v[k].key,
                                          val |-> Tag(result, k)]]
    /\ k' = k + 1
    /\ pc' = IF k = Len(result.v) THEN "rd_concat" ELSE "rd_tag"
    /\ UNCHANGED <<construction, exc, result_concatenated, all_columns>>

\* [df for df in self.result.values() if not df.empty]
NonEmpty(frames) == SelectSeq(frames, LAMBDA df : ~IsEmpty(df))

\* lines 355-358; pd.concat raises ValueError when handed no frame at all
RdConcat ==
    /\ pc = "rd_concat"
    /\ IF NonEmpty(Values(result)) = <<>>
       THEN /\ pc' = "rd_raised"
            /\ exc' = "ValueError"
            /\ result_concatenated' = result_concatenated
       ELSE /\ pc' = "rd_done"
            /\ exc' = exc
            /\ result_concatenated' = Concat(NonEmpty(Values(result)))
    /\ UNCHANGED <<construction, result, k, all_columns>>

NextReduce ==
    \/ RdCall
    \/ RdGuard
    \/ RdColumns
    \/ RdTag
    \/ RdConcat

SpecReduce == InitReduce /\ [][NextReduce]_vars

-----------------------------------------------------------------------------
(* Vocabulary of the properties.                                           *)

\* the pattern and the supplied prefix of the running import task
P == task.file_name.v
HasPrefix == IsStr(task.subfolder)

\* occurrence of p in s, by splitting s around it
Occurs(p, s) == \E a \in 0..Len(s) : \E b \in a..Len(s) : SubSeq(s, a + 1, b) = p

\* the paths of l that satisfy Ok, each once and in the order of l: the
\* m-th kept path is the one with m - 1 kept paths before it
KeepOnly(l, Ok(_)) ==
    LET kept == {j \in 1..Len(l) : Ok(l[j])}
        nth(m) == CHOOSE j \in kept : Cardinality({q \in kept : q < j}) = m - 1
    IN [m \in 1..Cardinality(kept) |-> l[nth(m)]]

UnderPrefix(path) ==
    HasPrefix => (Len(task.subfolder.v) <= Len(path)
                  /\ \A j \in 1..Len(task.subfolder.v) : path[j] = task.subfolder.v[j])

\* the items of the mapping under construction
Items == IF result.t = "dict" THEN result.v ELSE <<>>
HasEntry(key, path) == \E j \in 1..Len(Items) : Items[j].key = key /\ Items[j].val.v = path

\* C1: with exact_match true the candidate set is exactly the paths of the
\* listing that equal P and start with the supplied prefix, in listing order
\* (all paths equal to P when no prefix is supplied), obtained without error.
C1_ExactCandidates ==
    exact_match =>
        /\ exc # "UnboundLocalError"
        /\ pc = "check" =>
             files = KeepOnly(file_paths, LAMBDA path : path = P /\ UnderPrefix(path))

\* C2: with exact_match false the candidate set is exactly the paths of the
\* listing that contain P (and start with the prefix when one is supplied),
\* in listing order, none dropped or duplicated.
C2_SubstringCandidates ==
    ~exact_match =>
        /\ exc # "UnboundLocalError"
        /\ pc = "check" =>
             files = KeepOnly(file_paths, LAMBDA path : Occurs(P, path) /\ UnderPrefix(path))

C2_Witness ==
    /\ pc = "check" /\ ~exact_match /\ HasPrefix
    /\ Len(file_paths) = 2 /\ Len(files) = 1
    /\ \E j \in 1..Len(file_paths) : Occurs(P, file_paths[j]) /\ file_paths[j] # files[1]

\* C3: in latest mode with a non-empty candidate set every candidate is
\* stat'ed, exactly one path is fetched, it has the greatest lastModified of
\* all candidates and is the first such in listing order, and its value is
\* stored under the key P.
C3_LatestSelected ==
    (latest_match /\ files # <<>> /\ pc \in {"fetch_latest", "return"}) =>
        /\ Len(stats) = Len(files)
        /\ \A j \in 1..Len(files) : stats[j].path = files[j]
        /\ IsStr(latest_file)
        /\ \E j \in 1..Len(stats) :
             /\ stats[j].path = latest_file.v
             /\ \A q \in 1..Len(stats) : stats[q].ms <= stats[j].ms
             /\ \A q \in 1..(j - 1) : stats[q].ms < stats[j].ms
        /\ pc = "return" => (opens = <<latest_file.v>> /\ HasEntry(P, latest_file.v))

\* C4: in non-latest mode with candidates c_0 .. c_(k-1), k >= 1, the importer
\* fetches every candidate once in listing order, makes no stat call, stores
\* the value of c_i under P followed by "_" and the decimal i, and returns a
\* truthy indicator.
C4_AllFetched ==
    /\ (~latest_match /\ pc = "fetch") =>
            (stats = <<>> /\ opens = SubSeq(files, 1, k - 1))
    /\ (~latest_match /\ files # <<>> /\ pc = "return") =>
            /\ stats = <<>>
            /\ opens = files
            /\ imported
            /\ \A j \in 1..Len(files) : HasEntry(P \o <<"_", Digits[j]>>, files[j])

C4_Witness ==
    /\ ~latest_match /\ pc = "return"
    /\ Len(files) = 2 /\ files[1] # files[2]

C6_SingleFrameConcatenated ==
    (pc = "done" /\ concatenated /\ result.t = "frame") => result_concatenated = result

C8_EmptyRaises ==
    [][ /\ (pc = "check" /\ files = <<>> /\ file_checker) =>
             /\ pc' = "raised" /\ exc' = "FileNotFoundError"
             /\ result' = result /\ i' = i
             /\ stats' = <<>> /\ opens' = <<>>
        /\ pc # "raised" ]_vars

C8_Witness ==
    /\ pc = "raised" /\ exc = "FileNotFoundError"
    /\ i < TaskCount
    /\ stats = <<>> /\ opens = <<>>

\* the shapes the validation table rejects
ShapeRejected ==
    \/ ~Truthy(names)
    \/ /\ IsStr(names)
       /\ \/ IsList(subfolders)
          \/ IsList(skiprows)
          \/ (IsList(sheets) /\ Len(sheets.v) # 1)
    \/ /\ IsList(names) /\ Truthy(names)
       /\ \/ (IsList(subfolders) /\ Len(subfolders.v) # Len(names.v))
          \/ (IsList(skiprows) /\ Len(skiprows.v) # Len(names.v))
          \/ (IsList(sheets) /\ Len(sheets.v) # Len(names.v))

\* C9: construction raises ValueError from the validation, before any task,
\* stat call or stream open, exactly for the rejected shapes; every other
\* shape is accepted.
C9_InvalidRequest ==
    pc \notin {"init", "validate"} =>
        /\ ShapeRejected <=> (pc = "raised" /\ exc = "ValueError" /\ i = 0)
        /\ ShapeRejected => (IsNone(result) /\ stats = <<>> /\ opens = <<>>)

\* C10: a subfolders sequence aligned to names may hold absent elements: the
\* request is accepted, and a name whose element is absent is matched against
\* the whole listing.
C10_AbsentSubfolderElements ==
    (/\ IsList(names) /\ IsList(subfolders) /\ ~ShapeRejected
     /\ \E j \in 1..Len(subfolders.v) : IsNone(subfolders.v[j])) =>
        /\ ~(pc = "raised" /\ i = 0)
        /\ (pc = "check" /\ IsNone(task.subfolder) /\ ~exact_match) =>
               files = KeepOnly(file_paths, LAMBDA path : Occurs(P, path))

\* the positions at which an import task is running
InTask == pc \in {"match", "check", "stat", "fetch", "fetch_latest", "return"}

\* C11: for every accepted request, the subfolder prefix handed to each import
\* task is absent or a string starting with "/", whether subfolders was given
\* as a single string or as a sequence.
C11_PrefixStartsWithSlash ==
    InTask =>
        \/ IsNone(task.subfolder)
        \/ IsStr(task.subfolder) /\ StartsWith(task.subfolder.v, <<"/">>)

\* the value stored under key, when there is one
StoredUnder(key, val) == \E j \in 1..Len(Items) : Items[j].key = key /\ Items[j].val = val

Begins(b, sig) == Len(b) >= Len(sig) /\ \A j \in 1..Len(sig) : b[j] = sig[j]
AmongFirst(b, n, byte) == \E j \in 1..Len(b) : j <= n /\ b[j] = byte

\* C13: for every buffer the classifier returns legacy-workbook when the
\* buffer begins with D0 CF 11 E0 A1 B1 1A E1, otherwise modern-workbook when
\* it begins with 50 4B 03 04, otherwise delimited-text when it begins with
\* EF BB BF or one of its first 1024 bytes is 0x2C, otherwise unknown; so a
\* buffer with the ZIP signature is modern-workbook even with a comma among
\* its first 1024 bytes, and the empty buffer is unknown.
C13_ClassifierRules ==
    file_type # "unset" =>
        /\ file_type =
             IF Begins(binary_file, OleSignature) THEN "xls"
             ELSE IF Begins(binary_file, ZipSignature) THEN "xlsx"
             ELSE IF Begins(binary_file, Utf8Bom) \/ AmongFirst(binary_file, 1024, 44)
             THEN "csv"
             ELSE "unknown"
        /\ (Begins(binary_file, ZipSignature) /\ AmongFirst(binary_file, 1024, 44)) =>
             file_type = "xlsx"
        /\ binary_file = <<>> => file_type = "unknown"

C13_Witness ==
    /\ pc = "dl_parse" /\ file_type = "xlsx"
    /\ Begins(binary_file, ZipSignature) /\ AmongFirst(binary_file, 1024, 44)

\* the frames the reducer found, when it found a dict of frames only
FoundFrames ==
    IF IsPyDict(found) /\ \A j \in 1..Len(found.v) : found.v[j].val.t = "frame"
    THEN Values(found) ELSE <<>>

HasColumn(df, c) == \E j \in 1..Len(df.columns) : df.columns[j] = c

\* cols lists, each once and in ascending order, the labels that satisfy In
IsSortedListOf(cols, In(_)) ==
    /\ \A j \in 1..Len(cols) : In(cols[j])
    /\ \A n \in 1..Len(FoundFrames) : \A j \in 1..Len(FoundFrames[n].columns) :
         In(FoundFrames[n].columns[j]) =>
             \E q \in 1..Len(cols) : cols[q] = FoundFrames[n].columns[j]
    /\ \A a, b \in 1..Len(cols) : a < b => StrLess(cols[a], cols[b])

\* C14: with use_union false and a mapping of two or more frames, the columns
\* of the concatenated frame the reducer returns with are the sorted
\* intersection of the frames' column labels followed by "Origin", and every
\* row carries in Origin the key of the frame it came from.
C14_IntersectionColumnsAndOrigin ==
    (pc = "rd_done" /\ ~use_union /\ Len(FoundFrames) >= 2) =>
        LET cols == result_concatenated.columns
            rows == result_concatenated.rows
        IN /\ Len(cols) >= 1
           /\ cols[Len(cols)] = Origin
           /\ IsSortedListOf(SubSeq(cols, 1, Len(cols) - 1),
                             LAMBDA c : \A n \in 1..Len(FoundFrames) :
                                            HasColumn(FoundFrames[n], c))
           /\ \A r \in 1..Len(rows) : rows[r].cells[Origin] = rows[r].id[1]

C14_Witness ==
    /\ pc = "rd_done" /\ ~use_union /\ Len(FoundFrames) >= 2
    /\ FoundFrames[1].columns # FoundFrames[2].columns
    /\ Len(result_concatenated.columns) = 2
    /\ \E a, b \in 1..Len(result_concatenated.rows) :
         result_concatenated.rows[a].id[1] # result_concatenated.rows[b].id[1]

RECURSIVE RowsBefore(_)
\* the rows of the non-empty found frames that precede the n-th
RowsBefore(n) ==
    IF n <= 1 THEN 0
    ELSE RowsBefore(n - 1)
         + (IF IsEmpty(FoundFrames[n - 1]) THEN 0 ELSE Len(FoundFrames[n - 1].rows))

\* C15: whenever the reducer produces a concatenated frame, its row count is
\* the sum of the row counts of the non-empty input frames, its rows are
\* those of the frames, grouped by frame in mapping order and in their
\* original order within a frame, and its row index is 0..n-1.
C15_RowsInMappingOrder ==
    result_concatenated.t = "frame" =>
        LET rows == result_concatenated.rows
        IN /\ pc = "rd_done"
           /\ Len(rows) = RowsBefore(Len(FoundFrames) + 1)
           /\ \A n \in 1..Len(FoundFrames) :
                ~IsEmpty(FoundFrames[n]) =>
                    \A r \in 1..Len(FoundFrames[n].rows) :
                        rows[RowsBefore(n) + r].id = FoundFrames[n].rows[r].id
           /\ Len(result_concatenated.index) = Len(rows)
           /\ \A r \in 1..Len(rows) : result_concatenated.index[r] = r - 1

C15_Witness ==
    /\ pc = "rd_done" /\ result_concatenated.t = "frame"
    /\ Len(FoundFrames) >= 2
    /\ Len(FoundFrames[1].rows) = 2 /\ Len(FoundFrames[2].rows) = 1
    /\ Len(result_concatenated.rows) = 3

InSomeFrame(c) == \E n \in 1..Len(FoundFrames) : HasColumn(FoundFrames[n], c)

\* C16: with use_union true and a mapping of two or more frames, every frame
\* is reindexed to the sorted union of the frames' column labels, so the
\* columns of the concatenated frame are exactly that sorted union, with the
\* empty marker in the cells of the columns a frame lacks, and no Origin
\* column is added.
C16_UnionReindexed ==
    (pc = "rd_done" /\ use_union /\ Len(FoundFrames) >= 2) =>
        /\ IsSortedListOf(result_concatenated.columns, InSomeFrame)
        /\ \A j \in 1..Len(result.v) :
             /\ IsSortedListOf(result.v[j].val.columns, InSomeFrame)
             /\ \A r \in 1..Len(result.v[j].val.rows) :
                  \A c \in DOMAIN result.v[j].val.rows[r].cells :
                      ~HasColumn(FoundFrames[j], c) =>
                          result.v[j].val.rows[r].cells[c] = NaN

\* C17: when concatenated is requested and every frame of a mapping of two
\* or more frames is empty, the reducer completes without error and
\* result_concatenated is an empty frame whose columns are the target
\* columns.
C17_AllEmptyFrames ==
    (/\ Len(FoundFrames) >= 2
     /\ \A n \in 1..Len(FoundFrames) : IsEmpty(FoundFrames[n])) =>
        /\ pc # "rd_raised"
        /\ pc = "rd_done" =>
             /\ result_concatenated.t = "frame"
             /\ result_concatenated.rows = <<>>
             /\ result_concatenated.columns =
                  IF use_union THEN all_columns ELSE all_columns \o <<Origin>>

\* the caller's names as a list of patterns
NamesList == IF IsList(names) THEN names.v ELSE <<names>>

\* after is before with one occurrence of x taken out, the rest in order
OneRemoved(before, after, x) ==
    \E pos \in 1..Len(before) :
        /\ before[pos] = x
        /\ after = SubSeq(before, 1, pos - 1) \o SubSeq(before, pos + 1, Len(before))

\* the pattern has an entry in the mapping: its own key, or a numbered one
IsStored(p) ==
    \E j \in 1..Len(Items) :
        \/ Items[j].key = p.v
        \/ \E n \in 0..Len(file_paths) : Items[j].key = p.v \o <<"_">> \o <<Digits[n + 1]>>

InList(l, x) == \E j \in 1..Len(l) : l[j] = x

\* C18: unresolved starts as the caller's names (a single string as a list
\* of one), loses one occurrence of the task's pattern, the rest staying in
\* order, exactly when the task's importer returned truthy, and changes at no
\* other step; the importer returns truthy exactly when the candidate set is
\* not empty, so once the tasks are done a pattern of distinct names is
\* unresolved exactly when its candidate set was empty, and no stored pattern
\* is unresolved.
C18_Unresolved ==
    [][ /\ pc = "init" =>
             (pc' = "validate" => ficheros_no_encontrados' = NamesList)
        /\ pc = "return" =>
             /\ imported <=> files # <<>>
             /\ IF imported
                THEN OneRemoved(ficheros_no_encontrados, ficheros_no_encontrados',
                                task.file_name)
                ELSE ficheros_no_encontrados' = ficheros_no_encontrados
        /\ pc \notin {"init", "return"} =>
             ficheros_no_encontrados' = ficheros_no_encontrados
        /\ pc = "collapse" =>
             /\ \A j \in 1..Len(NamesList) :
                  ~(IsStored(NamesList[j]) /\ InList(ficheros_no_encontrados, NamesList[j]))
             /\ (\A a, b \in 1..Len(NamesList) : a # b => NamesList[a] # NamesList[b]) =>
                  \A j \in 1..Len(NamesList) :
                      InList(ficheros_no_encontrados, NamesList[j])
                          <=> MatchList(file_paths, NamesList[j].v,
                                        TaskArgs(j).subfolder, exact_match) = <<>> ]_vars

C18_Witness ==
    /\ pc = "done" /\ IsList(names) /\ Len(names.v) = 2
    /\ names.v[1] # names.v[2]
    /\ ficheros_no_encontrados = <<names.v[1]>>
    /\ Len(Items) >= 1

\* the candidate set of the j-th name
Candidates(j) ==
    MatchList(file_paths, NamesList[j].v, TaskArgs(j).subfolder, exact_match)

\* the keys the j-th name stores its candidates under
KeysFor(j) ==
    IF latest_match
    THEN (IF Candidates(j) = <<>> THEN {} ELSE {NamesList[j].v})
    ELSE {NamesList[j].v \o <<"_", Digits[n]>> : n \in 1..Len(Candidates(j))}

\* where a key is in the mapping's iteration order
PositionsOf(keys) == {q \in 1..Len(Items) : Items[q].key \in keys}

MappingBuilt == pc \in {"collapse", "concat", "done"} /\ Len(Items) >= 2

\* the order of the keys, for the names at the positions Among
KeysInOrder(Among(_, _)) ==
    /\ \A a, b \in 1..Len(NamesList) :
         (a < b /\ Among(a, b)) =>
             \A q \in PositionsOf(KeysFor(a)) : \A u \in PositionsOf(KeysFor(b)) : q < u
    /\ ~latest_match =>
         \A a \in 1..Len(NamesList) :
             (\A b \in 1..Len(NamesList) : b # a => Among(a, b)) =>
                 \A n \in 1..Len(Candidates(a)) :
                     \E q \in 1..Len(Items) :
                         /\ Items[q].key = NamesList[a].v \o <<"_", Digits[n]>>
                         /\ Items[q].val.v = Candidates(a)[n]
                         /\ \A m \in 1..(n - 1) :
                              \E u \in 1..(q - 1) :
                                  Items[u].key = NamesList[a].v \o <<"_", Digits[m]>>

KeysInDistinctNamesOrder ==
    MappingBuilt => KeysInOrder(LAMBDA a, b : NamesList[a] # NamesList[b])

\* C20: when the importer raises for a task the construction ends there with
\* that error: no step follows (no stat call or stream open of a later task,
\* no collapse, no reducer), nothing of a failed download is stored, and the
\* constructor returns, handing result, result_concatenated and unresolved
\* to the caller, only when no task raised.
C20_RaiseAborts ==
    [][ /\ pc # "raised"
        /\ (InTask /\ (exc' # "none" \/ pc' = "raised")) =>
             /\ pc' = "raised" /\ exc' # "none"
             /\ i' = i /\ stats' = stats /\ Len(opens') <= Len(opens) + 1
             /\ result' = result /\ result_concatenated' = NoneV
        /\ pc' = "done" => (exc' = "none" /\ pc \in {"collapse", "concat"})
        /\ result'.t = "dict" =>
             \A j \in 1..Len(result'.v) : result'.v[j].val.t # "raise" ]_vars

C20_Witness ==
    /\ pc = "raised" /\ exc = "Exception"
    /\ i < TaskCount
    /\ Len(Items) >= 1
    /\ result_concatenated = NoneV

\* the arguments the n-th name is to be imported with
ExpandedTask(n) ==
    IF IsList(names)
    THEN [file_name |-> names.v[n],
          subfolder |-> IF IsList(subfolders) THEN subfolders.v[n]
                        ELSE IF IsStr(subfolders) THEN subfolders ELSE NoneV,
          sheet |-> IF IsList(sheets) /\ Len(sheets.v) = Len(names.v)
                    THEN sheets.v[n] ELSE sheets,
          skiprows |-> IF IsList(skiprows) THEN skiprows.v[n] ELSE skiprows]
    ELSE [file_name |-> names,
          subfolder |-> subfolders,
          sheet |-> IF IsList(sheets) /\ Len(sheets.v) = 1 THEN sheets.v[1] ELSE sheets,
          skiprows |-> skiprows]

SheetsOf(val) == IF val.t = "sheetmap" THEN val.v ELSE <<>>

\* C22: a sheet map is one opaque value: with concatenated requested the
\* reducer never gets past its guard on a result that is or holds a sheet map,
\* result_concatenated stays absent and the sheet map is left as it was found,
\* also when the sheet map is the only stored value.
C22_SheetMapOpaque ==
    LET holds == \/ found.t = "sheetmap"
                 \/ found.t = "dict" /\ \E j \in 1..Len(found.v) :
                                           found.v[j].val.t = "sheetmap"
    IN (concatenated /\ holds) =>
         /\ pc \in {"rd_call", "rd_guard", "rd_done"}
         /\ result_concatenated = NoneV
         /\ result.t = found.t
         /\ IF found.t = "sheetmap"
            THEN SheetsOf(result) = SheetsOf(found)
            ELSE \A j \in 1..Len(found.v) :
                     SheetsOf(result.v[j].val) = SheetsOf(found.v[j].val)

\* A sheet map stored among other values does stay opaque.
SheetMapAmongOthersOpaque ==
    (concatenated /\ found.t = "dict"
       /\ \E j \in 1..Len(found.v) : found.v[j].val.t = "sheetmap") =>
        /\ pc \in {"rd_call", "rd_guard", "rd_done"}
        /\ result_concatenated = NoneV
        /\ \A j \in 1..Len(found.v) :
               SheetsOf(result.v[j].val) = SheetsOf(found.v[j].val)

\* the reducer found the empty mapping, a value that is no dict, or a mapping
\* with a value that is no frame
GuardCase ==
    \/ found.t = "dict" /\ Len(found.v) = 0
    \/ ~IsPyDict(found)
    \/ found.t = "dict" /\ \E j \in 1..Len(found.v) : found.v[j].val.t # "frame"

Decoded(n) == Decodes(attempts[n].encoding, binary_file)

\* C24: the delimited-text adapter tries utf-8, latin1, iso-8859-1, cp1252 in
\* that order, each attempt reading the buffer from position 0; an attempt is
\* followed by another only when it failed to decode, so no encoding after the
\* first that decodes is tried; the frame returned is that of the first
\* encoding that decodes, and a parser failure on decoded text ends the
\* import at once.
C24_EncodingCascade ==
    /\ Len(attempts) <= 4
    /\ \A n \in 1..Len(attempts) :
         /\ attempts[n].encoding = <<"utf-8", "latin1", "iso-8859-1", "cp1252">>[n]
         /\ attempts[n].position = 0
         /\ n < Len(attempts) => ~Decoded(n)
    /\ pc = "csv_read" => position = 0
    /\ pc = "csv_rewind" => (Len(attempts) >= 1 /\ ~Decoded(Len(attempts)))
    /\ (pc \in {"dl_store", "dl_done"} /\ file_type = "csv") =>
         /\ Len(attempts) >= 1 /\ Decoded(Len(attempts))
         /\ returned.t = "frame"
    /\ (pc = "dl_raised" /\ file_type = "csv") =>
         /\ Len(attempts) >= 1
         /\ Decoded(Len(attempts)) <=> message = Umbrella(ParserMsg)
         /\ returned = NoneV

C24_Witness ==
    /\ pc = "dl_store" /\ file_type = "csv"
    /\ ~Utf8Decodes(binary_file)
    /\ attempts = <<[encoding |-> "utf-8", position |-> 0, sep |-> sep],
                    [encoding |-> "latin1", position |-> 0, sep |-> sep]>>
    /\ returned.t = "frame"

\* latin1 maps every byte to a character: the second attempt always decodes,
\* iso-8859-1 and cp1252 are never tried and line 516 is never reached.
LatinAlwaysDecodes ==
    /\ Len(attempts) <= 2
    /\ message # Umbrella(DecodeMsg)

\* the text msg names the path
Names(msg, path) == \E n \in 1..Len(msg) : msg[n].path = path

\* every failure of a download leaves the downloader as the one wrapping
\* exception of line 404
UmbrellaWraps ==
    pc = "dl_raised" =>
        /\ exc = "Exception"
        /\ Len(message) >= 2
        /\ <<message[1]>> = Umbrella(<<>>)

\* C25: every failure raised while a selected path is fetched or parsed
\* (stream failure, unknown format with binary_mode off, decode failure,
\* parser failure) reaches the caller as the one umbrella failure, and the
\* message of that failure names the path that was being imported.
C25_UmbrellaNamesPath ==
    UmbrellaWraps /\ (pc = "dl_raised" => Names(message, latest_file.v))

\* C26: the stream the fetcher opens is released when the fetcher returns or
\* raises, also when the read fails: at most one stream is open, and only
\* between the open and the read; none is open when the bytes are classified
\* or parsed, when the value is stored, or when the download ends or aborts.
\* A stream failure is reported as the fetch failure wrapping its cause.
C26_StreamReleased ==
    /\ stream_open \in {0, 1}
    /\ stream_open = 1 <=> pc = "dl_read"
    /\ \A n \in 1..Len(calls) :
         calls[n] = "get_download_stream" =>
             \/ n < Len(calls) /\ calls[n + 1] = "read"
             \/ n = Len(calls) /\ pc \in {"dl_read", "dl_raised"}
    /\ (pc = "dl_raised" /\ ~blob.ok) =>
         /\ Len(message) >= 3
         /\ message[2] = Text("Error reading file from Sharepoint: ")
         /\ SubSeq(message, 3, Len(message)) \in StreamCauses(latest_file.v)

C26_Witness ==
    /\ pc = "dl_raised" /\ ~blob.ok
    /\ calls = <<"get_download_stream", "read">>
    /\ stream_open = 0

\* C27: a fetch or parse failure writes nothing to the mapping import_file
\* was handed: in latest_match mode the mapping is left as it was; in
\* non-latest mode a failure at a candidate leaves the entries written for the
\* candidates before it, each under the pattern with its suffix, and writes
\* nothing for that candidate.
C27_FailureWritesNothing ==
    [][ (pc \in {"fetch", "fetch_latest"} /\ pc' = "raised") =>
          /\ result' = result
          /\ pc = "fetch" =>
               \A m \in 1..(k - 1) :
                   \E q \in 1..Len(result'.v) :
                       /\ result'.v[q].key = task.file_name.v \o <<"_", Digits[m]>>
                       /\ result'.v[q].val.v = files[m] ]_vars

C27_Witness ==
    /\ pc = "raised" /\ exc = "Exception"
    /\ ~latest_match
    /\ k = 2 /\ Len(opens) = 2
    /\ HasEntry(task.file_name.v \o <<"_", "0">>, files[1])
    /\ ~HasEntry(task.file_name.v \o <<"_", "1">>, files[2])

\* two buffers with the same first 1024 bytes, or the same buffer when shorter
SameFirst1024(a, b) ==
    IF Len(a) < 1024 \/ Len(b) < 1024
    THEN a = b
    ELSE \A p \in 1..1024 : a[p] = b[p]

\* C28: the classification is a function of the first 1024 bytes alone: the
\* type detect_file_type returned for the downloaded buffer is the type of
\* every buffer that has the same first 1024 bytes, whatever follows them and
\* whatever the sheet selector and the mapping of the request are.
C28_FirstBytesDecide ==
    pc = "dl_parse" =>
        \A b \in Buffers : SameFirst1024(b, binary_file) => DetectFileType(b) = file_type

C28_Witness ==
    /\ pc = "dl_parse" /\ file_type = "unknown"
    /\ Len(binary_file) = 1025 /\ binary_file[1025] = 44
    /\ IsList(task.sheet)

InEveryFrame(c) == \A n \in 1..Len(FoundFrames) : HasColumn(FoundFrames[n], c)

\* df is the frame was, cut down to the columns every found frame has (in
\* ascending order) plus a last column Origin that holds key in every row
IsTaggedIntersection(df, was, key) ==
    /\ df.t = "frame"
    /\ Len(df.columns) >= 1
    /\ df.columns[Len(df.columns)] = Origin
    /\ IsSortedListOf(SubSeq(df.columns, 1, Len(df.columns) - 1), InEveryFrame)
    /\ \A c \in ColumnSet(was) : InEveryFrame(c) \/ c = Origin \/ ~HasColumn(df, c)
    /\ df.index = was.index
    /\ Len(df.rows) = Len(was.rows)
    /\ \A r \in 1..Len(df.rows) :
         /\ DOMAIN df.rows[r].cells = ColumnSet(df)
         /\ df.rows[r].cells[Origin] = key
         /\ \A c \in ColumnSet(df) \ {Origin} : df.rows[r].cells[c] = was.rows[r].cells[c]

\* C29: the reducer writes to result. When the construction completes with
\* concatenated requested, use_union false and a mapping of two or more
\* frames, every value of result is its frame reindexed to the sorted
\* intersection followed by Origin, under its own key; with use_union true
\* the values of result are as the import step left them; and with
\* concatenated not requested the reducer is not run: result_concatenated is
\* absent and result is as the import step left it, no Origin column added.
C29_ReducerRewritesResult ==
    /\ (pc = "rd_done" /\ ~use_union /\ Len(FoundFrames) >= 2) =>
         /\ Len(result.v) = Len(found.v)
         /\ \A j \in 1..Len(found.v) :
              /\ result.v[j].key = found.v[j].key
              /\ IsTaggedIntersection(result.v[j].val, found.v[j].val, found.v[j].key)
    /\ (concatenated /\ use_union /\ Len(FoundFrames) >= 2) => result.v = found.v
    /\ ~concatenated =>
         /\ pc \in {"rd_call", "rd_skipped"}
         /\ result_concatenated = NoneV
         /\ result.t = found.t
         /\ IsPyDict(found) => result.v = found.v
         /\ found.t = "frame" => result.columns = found.columns

C29_Witness ==
    /\ pc = "rd_done" /\ ~use_union
    /\ found.t = "dict" /\ Len(FoundFrames) = 2
    /\ FoundFrames[1].columns = <<<<"b">>, <<"a">>>>
    /\ FoundFrames[2].columns = <<<<"a">>, <<"c">>>>
    /\ Len(FoundFrames[1].rows) >= 1
    /\ result.v[1].val.columns = <<<<"a">>, Origin>>
    /\ result.v[2].val.columns = <<<<"a">>, Origin>>

\* the buffer starts with none of the three signatures and none of its first
\* 1024 bytes is 0x2C
Unmarked(b) ==
    /\ ~Begins(b, OleSignature) /\ ~Begins(b, ZipSignature) /\ ~Begins(b, Utf8Bom)
    /\ ~AmongFirst(b, 1024, 44)

====
